---- MODULE Spec2Model ----
(***************************************************************************)
(* Model of stable-heap (src/src/lib.rs): allocate / deallocate layered    *)
(* over Vec<T>::with_capacity and Vec::from_raw_parts, with the platform    *)
(* allocator modelled as a set of live blocks inside a small arena.         *)
(***************************************************************************)
EXTENDS Integers, FiniteSets, Sequences, TLC

VARIABLES heap, owned, last, paired, fault, pc, treq, mine

vars == <<heap, owned, last, paired, fault, pc, treq, mine>>

(* ---------------------------------------------------------------- bounds *)
MaxSize == 5
BigSize == 16
ArenaBase == 16
ArenaSize == 16
MaxSlack == 2
NumThreads == 2
MaxLive == 2
MaxHeld == 1
MaxConcSize == 4

Sizes == (0..MaxSize) \cup {BigSize}
Aligns == {0, 1, 2, 3, 4, 8, 16}
Supported == {1, 2, 4, 8}
Arena == ArenaBase..(ArenaBase + ArenaSize - 1)
Threads == 1..NumThreads

NULL == 0
NoPtr == -1
NoReq == -1

(* ------------------------------------------------------- program model *)
EMPTY_null == NULL

\* pub const EMPTY: *mut () = 0x1 as *mut ();
EMPTY == 1

RECURSIVE BitAnd(_, _)
BitAnd(a, b) ==
  IF a = 0 \/ b = 0 THEN 0
  ELSE (a % 2) * (b % 2) + 2 * BitAnd(a \div 2, b \div 2)

Shr(a, k) == a \div (2 ^ k)

SizeOf(T) ==
  CASE T = "u8" -> 1 [] T = "u16" -> 2 [] T = "u32" -> 4 [] T = "u64" -> 8
    [] OTHER -> 0

AlignOf(T) ==
  CASE T = "u8" -> 1 [] T = "u16" -> 2 [] T = "u32" -> 4 [] T = "u64" -> 8
    [] OTHER -> 1

\* assert!(size & align == 0, ...): Rust parses this as (size & align) == 0
ArgsOk(size, align) == BitAnd(size, align) = 0

AllocDispatch_u8_for_2(size, align) ==
  CASE align = 1 -> [unit |-> "u8",  capacity |-> size]
    [] align = 2 -> [unit |-> "u8",  capacity |-> size]
    [] align = 4 -> [unit |-> "u32", capacity |-> Shr(size, 2)]
    [] align = 8 -> [unit |-> "u64", capacity |-> Shr(size, 3)]
    [] OTHER     -> [unit |-> "panic", capacity |-> NoReq]

\* match align { 1 => do_allocate::<u8>(size), 2 => do_allocate::<u16>(size >> 1), ... }
AllocDispatch(size, align) ==
  CASE align = 1 -> [unit |-> "u8",  capacity |-> size]
    [] align = 2 -> [unit |-> "u16", capacity |-> Shr(size, 1)]
    [] align = 4 -> [unit |-> "u32", capacity |-> Shr(size, 2)]
    [] align = 8 -> [unit |-> "u64", capacity |-> Shr(size, 3)]
    [] OTHER     -> [unit |-> "panic", capacity |-> NoReq]

DeallocDispatch_no_shift(old_size, align) ==
  CASE align = 1 -> [unit |-> "u8",  capacity |-> old_size]
    [] align = 2 -> [unit |-> "u16", capacity |-> old_size]
    [] align = 4 -> [unit |-> "u32", capacity |-> Shr(old_size, 2)]
    [] align = 8 -> [unit |-> "u64", capacity |-> Shr(old_size, 3)]
    [] OTHER     -> [unit |-> "panic", capacity |-> NoReq]

DeallocDispatch_default_u8(old_size, align) ==
  CASE align = 2 -> [unit |-> "u16", capacity |-> Shr(old_size, 1)]
    [] align = 4 -> [unit |-> "u32", capacity |-> Shr(old_size, 2)]
    [] align = 8 -> [unit |-> "u64", capacity |-> Shr(old_size, 3)]
    [] OTHER     -> [unit |-> "u8",  capacity |-> old_size]

\* match align { 1 => do_deallocate::<u8>(ptr, old_size), ... }
DeallocDispatch(old_size, align) ==
  CASE align = 1 -> [unit |-> "u8",  capacity |-> old_size]
    [] align = 2 -> [unit |-> "u16", capacity |-> Shr(old_size, 1)]
    [] align = 4 -> [unit |-> "u32", capacity |-> Shr(old_size, 2)]
    [] align = 8 -> [unit |-> "u64", capacity |-> Shr(old_size, 3)]
    [] OTHER     -> [unit |-> "panic", capacity |-> NoReq]

(* --------------------------------------------------- platform allocator *)
Extent(b) == b.addr..(b.addr + b.usable - 1)

IsFree(h, addr, n) ==
  /\ addr..(addr + n - 1) \subseteq Arena
  /\ \A b \in h : Extent(b) \cap (addr..(addr + n - 1)) = {}

\* the blocks the platform allocator may hand out for `capacity` units of T:
\* any free range of the arena aligned to align_of::<T>(), rounded up to a
\* usable size of the allocator's choosing
Places(h, T, capacity) ==
  { b \in [addr : {x \in Arena : x % AlignOf(T) = 0}, count : {capacity},
           unit : {T},
           usable : (capacity * SizeOf(T))..(capacity * SizeOf(T) + MaxSlack)] :
      IsFree(h, b.addr, b.usable) }

\* the pointer of a Vec that owns no allocation: heap::EMPTY (0x1) in the
\* standard library this crate was written against, NonNull::dangling()
\* (the alignment of T) in later ones
Dangling(T) == {1, AlignOf(T)}

Outcome(h, p, f) == [heap |-> h, ptr |-> p, fault |-> f]

\* Vec::<T>::with_capacity(capacity) followed by as_ptr(): no allocation for
\* a zero-byte buffer, the allocation-failure handler (process abort) when
\* the allocator has no room, a fresh block otherwise.  The third component
\* is the block the Vec owns.
VecWithCapacity(h, T, capacity) ==
  IF capacity * SizeOf(T) = 0
    THEN { <<h, p, "none", {}>> : p \in Dangling(T) }
  ELSE IF Places(h, T, capacity) = {}
    THEN { <<h, NoPtr, "oom", {}>> }
  ELSE { <<h \cup {b}, b.addr, "none", {b}>> : b \in Places(h, T, capacity) }

mem_drop(h, buf) == h \ buf

\* mem::forget(vec): the Vec's destructor does not run, its buffer stays live
mem_forget(h, buf) == h

\* let vec = Vec::<T>::with_capacity(capacity); let ptr = vec.as_ptr();
\* mem::forget(vec); ptr as *mut u8
do_allocate(h, T, capacity) ==
  { IF v[3] = "none" THEN Outcome(mem_forget(v[1], v[4]), v[2], "none")
                     ELSE Outcome(v[1], v[2], v[3]) :
      v \in VecWithCapacity(h, T, capacity) }

Called(r, T, capacity) == r @@ [unit |-> T, count |-> capacity]

allocate(h, size, align) ==
  IF ~ArgsOk(size, align)
    THEN { Called(Outcome(h, NoPtr, "assert"), "panic", NoReq) }
  ELSE LET d == AllocDispatch(size, align) IN
    IF d.unit = "panic"
      THEN { Called(Outcome(h, NoPtr, "unsupported"), "panic", NoReq) }
      ELSE { Called(r, d.unit, d.capacity) : r \in do_allocate(h, d.unit, d.capacity) }

\* drop of Vec::from_raw_parts(ptr as *mut T, 0, capacity): a Vec of zero
\* bytes frees nothing; otherwise the buffer at ptr goes back to the
\* allocator with the layout (capacity, T).  Freeing with a layout other
\* than the one the block was allocated with, or freeing an address that is
\* not a live block, is undefined behaviour: either the block is released
\* all the same or the process is lost.
VecDrop(h, ptr, T, capacity) ==
  IF capacity * SizeOf(T) = 0 THEN { Outcome(h, NoPtr, "none") }
  ELSE LET at == {b \in h : b.addr = ptr} IN
    IF at = {} THEN { Outcome(h, NoPtr, "ub") }
    ELSE IF \A b \in at : b.count = capacity /\ b.unit = T
      THEN { Outcome(h \ at, NoPtr, "none") }
      ELSE { Outcome(h \ at, NoPtr, "none"), Outcome(h, NoPtr, "ub") }

\* let _ = Vec::from_raw_parts(ptr as *mut T, 0, capacity);
do_deallocate(h, ptr, T, capacity) == VecDrop(h, ptr, T, capacity)

deallocate(h, ptr, old_size, align) ==
  LET d == DeallocDispatch(old_size, align) IN
    IF d.unit = "panic"
      THEN { Called(Outcome(h, NoPtr, "unsupported"), "panic", NoReq) }
      ELSE { Called(r, d.unit, d.capacity) : r \in do_deallocate(h, ptr, d.unit, d.capacity) }

(* ------------------------------------------------------ sequential use *)
NoCall == [op |-> "none", size |-> 0, align |-> 0, ptr |-> NoPtr, ret |-> NoPtr,
           unit |-> "panic", count |-> NoReq, heap0 |-> {}]

Init ==
  /\ heap = {}
  /\ owned = {}
  /\ last = NoCall
  /\ paired = NoCall
  /\ fault = "none"
  /\ pc = [t \in Threads |-> "idle"]
  /\ treq = [t \in Threads |-> NoCall]
  /\ mine = [t \in Threads |-> {}]

\* the usable size of the block a caller holds (its requested size when no
\* allocator block backs it)
UsableOf(h, o) ==
  LET at == {b \in h : b.addr = o.ptr} IN
    IF at = {} THEN o.size ELSE (CHOOSE b \in at : TRUE).usable

ReleaseSizes(h, o) == {s \in Sizes : o.size <= s /\ s <= UsableOf(h, o)} \cup {o.size}

\* a caller acquires a block and remembers (ptr, size, align)
Acquire(size, align) ==
  /\ fault = "none"
  /\ Cardinality(owned) < MaxLive
  /\ \E r \in allocate(heap, size, align) :
       /\ heap' = r.heap
       /\ fault' = r.fault
       /\ owned' = IF r.fault = "none"
                     THEN owned \cup {[ptr |-> r.ptr, size |-> size, align |-> align]}
                     ELSE owned
       /\ last' = [op |-> "allocate", size |-> size, align |-> align, ptr |-> NoPtr,
                   ret |-> r.ptr, unit |-> r.unit, count |-> r.count, heap0 |-> heap]
  /\ paired' = NoCall
  /\ UNCHANGED <<pc, treq, mine>>

\* the release that directly follows the allocate call that returned o, with
\* the size that call was given (the pattern of test_allocate_deallocate)
Immediately(o, old_size) ==
  /\ last.op = "allocate"
  /\ last.ret = o.ptr
  /\ last.size = o.size
  /\ last.align = o.align
  /\ old_size = o.size

\* a caller releases a block it holds, with the alignment it was acquired
\* with and a size between the requested and the usable size
Release(o, old_size) ==
  /\ fault = "none"
  /\ \E r \in deallocate(heap, o.ptr, old_size, o.align) :
       /\ heap' = r.heap
       /\ fault' = r.fault
       /\ last' = [op |-> "deallocate", size |-> old_size, align |-> o.align,
                   ptr |-> o.ptr, ret |-> NoPtr, unit |-> r.unit, count |-> r.count,
                   heap0 |-> heap]
  /\ owned' = owned \ {o}
  /\ paired' = IF Immediately(o, old_size) THEN last ELSE NoCall
  /\ UNCHANGED <<pc, treq, mine>>

\* a caller passes an alignment outside {1, 2, 4, 8} to deallocate
ReleaseUnsupported(o, old_size, align) ==
  /\ fault = "none"
  /\ \E r \in deallocate(heap, o.ptr, old_size, align) :
       /\ heap' = r.heap
       /\ fault' = r.fault
       /\ last' = [op |-> "deallocate", size |-> old_size, align |-> align,
                   ptr |-> o.ptr, ret |-> NoPtr, unit |-> r.unit, count |-> r.count,
                   heap0 |-> heap]
       /\ owned' = IF r.fault = "none" THEN owned \ {o} ELSE owned
  /\ paired' = NoCall
  /\ UNCHANGED <<pc, treq, mine>>

\* let mut v = Vec::<()>::with_capacity(0); assert_eq!(::EMPTY, v.as_mut_ptr());
test_empty_constant ==
  /\ fault = "none"
  /\ last.op # "test_empty_constant"
  /\ \E v \in VecWithCapacity(heap, "()", 0) :
       /\ last' = [op |-> "test_empty_constant", size |-> 0, align |-> 1, ptr |-> NoPtr,
                   ret |-> v[2], unit |-> "()", count |-> 0, heap0 |-> heap]
       /\ fault' = IF v[2] = EMPTY THEN "none" ELSE "assert"
  /\ paired' = NoCall
  /\ UNCHANGED <<heap, owned, pc, treq, mine>>

Next ==
  \/ \E size \in Sizes, align \in Aligns : Acquire(size, align)
  \/ \E o \in owned : \E old_size \in ReleaseSizes(heap, o) : Release(o, old_size)
  \/ \E o \in owned, align \in Aligns \ Supported : ReleaseUnsupported(o, o.size, align)
  \/ test_empty_constant

Spec == Init /\ [][Next]_vars

(* ------------------------------------------------------ concurrent use *)
\* Threads call allocate and deallocate concurrently.  The argument check and
\* the match run on the calling thread's own stack; the only step that
\* touches shared state is the call into the allocator inside do_allocate /
\* do_deallocate, which is atomic.  A panic ends the calling thread, an
\* allocation failure the process.
ConcSizes == {s \in Sizes : s <= MaxConcSize}

T_allocate(t, size, align) ==
  /\ fault = "none"
  /\ pc[t] = "idle"
  /\ Cardinality(mine[t]) < MaxHeld
  /\ LET d == AllocDispatch(size, align) IN
       IF ~ArgsOk(size, align) \/ d.unit = "panic"
         THEN /\ pc' = [pc EXCEPT ![t] = "panicked"]
              /\ treq' = treq
         ELSE /\ pc' = [pc EXCEPT ![t] = "do_allocate"]
              /\ treq' = [treq EXCEPT ![t] =
                   [NoCall EXCEPT !.op = "allocate", !.size = size, !.align = align,
                                  !.unit = d.unit, !.count = d.capacity]]
  /\ UNCHANGED <<heap, owned, last, paired, fault, mine>>

T_do_allocate(t) ==
  /\ fault = "none"
  /\ pc[t] = "do_allocate"
  /\ \E r \in do_allocate(heap, treq[t].unit, treq[t].count) :
       /\ heap' = r.heap
       /\ fault' = r.fault
       /\ mine' = IF r.fault = "none"
                    THEN [mine EXCEPT ![t] = @ \cup
                           {[ptr |-> r.ptr, size |-> treq[t].size, align |-> treq[t].align]}]
                    ELSE mine
  /\ pc' = [pc EXCEPT ![t] = "idle"]
  /\ treq' = [treq EXCEPT ![t] = NoCall]
  /\ UNCHANGED <<owned, last, paired>>

\* a thread releases a block it acquired itself, with the size and align it
\* acquired it with
T_deallocate(t, o) ==
  /\ fault = "none"
  /\ pc[t] = "idle"
  /\ o \in mine[t]
  /\ LET d == DeallocDispatch(o.size, o.align) IN
       IF d.unit = "panic"
         THEN /\ pc' = [pc EXCEPT ![t] = "panicked"]
              /\ treq' = treq
         ELSE /\ pc' = [pc EXCEPT ![t] = "do_deallocate"]
              /\ treq' = [treq EXCEPT ![t] =
                   [NoCall EXCEPT !.op = "deallocate", !.size = o.size, !.align = o.align,
                                  !.ptr = o.ptr, !.unit = d.unit, !.count = d.capacity]]
  /\ mine' = [mine EXCEPT ![t] = @ \ {o}]
  /\ UNCHANGED <<heap, owned, last, paired, fault>>

T_do_deallocate(t) ==
  /\ fault = "none"
  /\ pc[t] = "do_deallocate"
  /\ \E r \in do_deallocate(heap, treq[t].ptr, treq[t].unit, treq[t].count) :
       /\ heap' = r.heap
       /\ fault' = r.fault
  /\ pc' = [pc EXCEPT ![t] = "idle"]
  /\ treq' = [treq EXCEPT ![t] = NoCall]
  /\ UNCHANGED <<owned, last, paired, mine>>

NextConc ==
  \/ \E t \in Threads, size \in ConcSizes, align \in Aligns : T_allocate(t, size, align)
  \/ \E t \in Threads : T_do_allocate(t)
  \/ \E t \in Threads : \E o \in mine[t] : T_deallocate(t, o)
  \/ \E t \in Threads : T_do_deallocate(t)

SpecConc == Init /\ [][NextConc]_vars

(* ------------------------------------------------------------- claims *)
IsAllocate == last.op = "allocate"
IsDeallocate == last.op = "deallocate"
Returned == fault = "none"
BlocksAt(h, p) == {b \in h : b.addr = p}

\* C1: for align in {1,2,4,8} and size a positive multiple of align, allocate
\* followed at once by deallocate with the same size and align aborts at
\* neither call (short of memory exhaustion), gives the allocator the same
\* element count on release as on acquire, and leaves the heap as it was
\* before the allocate.
RoundTrip ==
  /\ (IsAllocate /\ last.align \in Supported /\ last.size > 0
        /\ last.size % last.align = 0)
       => fault \in {"none", "oom"}
  /\ (IsDeallocate /\ paired.op = "allocate" /\ paired.align \in Supported
        /\ paired.size > 0 /\ paired.size % paired.align = 0)
       => (Returned /\ last.count = paired.count /\ heap = paired.heap0)

\* C2 as stated: for align in {1,2,4,8} and every size that is a multiple of
\* align (zero included), a pointer returned by allocate is divisible by align.
AlignedForEveryMultiple ==
  (IsAllocate /\ Returned /\ last.align \in Supported /\ last.size % last.align = 0)
    => last.ret % last.align = 0

\* C2 amended: for align in {1,2,4,8} and every positive size that is a
\* multiple of align, a pointer returned by allocate is divisible by align.
AlignedForPositiveMultiple ==
  (IsAllocate /\ Returned /\ last.align \in Supported /\ last.size > 0
     /\ last.size % last.align = 0)
    => last.ret % last.align = 0

AlignedWitness ==
  IsAllocate /\ Returned /\ last.align = 2 /\ last.size = 4 /\ last.ret \in Arena /\ heap # last.heap0

\* C3: when the platform allocator cannot satisfy the request, allocate
\* returns normally with a null pointer and does not abort.
NullOnFailure ==
  (IsAllocate /\ last.count > 0 /\ Places(last.heap0, last.unit, last.count) = {})
    => (Returned /\ last.ret = NULL)

\* C4: whenever allocate with align in {1,2,4,8} returns a pointer, the block
\* it requested holds at least size bytes: count * unit width >= size.
BlockHoldsSize ==
  (IsAllocate /\ Returned /\ last.align \in Supported)
    => last.count * SizeOf(last.unit) >= last.size

\* C5: deallocate with the allocation's align and any old_size between the
\* requested and the usable size returns exactly that block with the element
\* count and unit width it was allocated with.
ReleaseAnySizeInRange ==
  (IsDeallocate /\ last.align \in Supported)
    => \A b \in BlocksAt(last.heap0, last.ptr) :
         /\ last.count = b.count
         /\ last.unit = b.unit
         /\ Returned
         /\ heap = last.heap0 \ {b}

RejectsNonMultiples ==
  (IsAllocate /\ last.align \in Supported /\ last.size % last.align # 0)
    => (fault = "assert" /\ last.count = NoReq)

ZeroCapacity ==
  /\ last.op \in {"allocate", "test_empty_constant"}
  /\ last.count = 0
  /\ last.ret # NoPtr

Backed(held) ==
  {o \in held : o.align \in Supported /\ AllocDispatch(o.size, o.align).capacity > 0}

\* C10: as long as every call has returned, the blocks live in the platform
\* allocator are exactly the blocks acquired and not yet released, one
\* allocator block per block held; with nothing held, nothing is live.
LiveIsAcquiredNotReleased ==
  Returned =>
    /\ {b.addr : b \in heap} = {o.ptr : o \in Backed(owned)}
    /\ Cardinality(heap) = Cardinality(Backed(owned))
    /\ (owned = {} => heap = {})

LifecycleWitness ==
  /\ IsDeallocate /\ Returned /\ last.count > 0
  /\ heap # {}
  /\ Cardinality(last.heap0) = Cardinality(heap) + 1

\* the allocator block behind a block a thread holds: its address range by
\* the element count and unit it was requested with
Span(o) ==
  LET d == AllocDispatch(o.size, o.align) IN
    o.ptr..(o.ptr + d.capacity * SizeOf(d.unit) - 1)

HeldLive(o) ==
  LET d == AllocDispatch(o.size, o.align) IN
    \E b \in heap : b.addr = o.ptr /\ b.count = d.capacity /\ b.unit = d.unit

\* C9: under any interleaving of calls by different threads, each releasing
\* only its own blocks with the matching size and align: no free ever hits a
\* block that is not live or has another layout (no double free), every block
\* a thread holds stays live as it was allocated, every block about to be
\* freed is still live, and blocks held by different threads do not overlap.
ConcurrentUseIsSafe ==
  /\ fault # "ub"
  /\ \A t \in Threads : \A o \in Backed(mine[t]) : HeldLive(o)
  /\ \A t \in Threads :
       (pc[t] = "do_deallocate" /\ treq[t].count > 0 /\ fault = "none")
         => BlocksAt(heap, treq[t].ptr) # {}
  /\ \A t1, t2 \in Threads : \A o1 \in Backed(mine[t1]), o2 \in Backed(mine[t2]) :
       (t1 # t2) => Span(o1) \cap Span(o2) = {}

ConcurrentWitness ==
  \E t1, t2 \in Threads :
    /\ t1 # t2
    /\ pc[t1] = "do_deallocate" /\ treq[t1].count > 0
    /\ pc[t2] = "do_allocate" /\ treq[t2].count > 0
    /\ Cardinality(heap) = 1

====
